---- MODULE Spec2Model ----
(***************************************************************************)
(* A model of src/menus.ts of obsidian-map-view: the menu contributors     *)
(* (addShowOnMap ... addImport) that append items to an Obsidian Menu, and *)
(* the click handlers they attach, run as tasks on the single-threaded     *)
(* event loop.                                                             *)
(*                                                                         *)
(* JavaScript values are records tagged by "type".  A JavaScript string is *)
(* a sequence of pieces; the strings the code searches in (URL patterns)   *)
(* and the strings it formats numbers to are sequences of one-character    *)
(* pieces.  A number is kept in hundredths (150 is 1.5, -225 is -2.25).    *)
(***************************************************************************)
EXTENDS Integers, Sequences, FiniteSets, TLC

VARIABLES
    settings,   \* settings.PluginSettings: [openIn |-> sequence of rules]
    menu,       \* the Menu: the sequence of items added so far
    lastCall,   \* the contributor call made last, with its arguments
    outcome,    \* how that call ended: "none" (no call yet), "returned", "TypeError"
    ncalls,     \* number of contributor calls made on the menu
    tasks,      \* the click handlers started so far, in click order
    files       \* the files newNote has created, in creation order

vars == <<settings, menu, lastCall, outcome, ncalls, tasks, files>>

---------------------------------------------------------------------------
(* Bounds *)

MaxRules == 2
MaxCalls == 2
MaxPatPieces == 3
MaxClicks == 2

---------------------------------------------------------------------------
(* JavaScript values *)

Undefined == [type |-> "undefined"]
Null == [type |-> "null"]
Str(s) == [type |-> "string", val |-> s]
LatLng(lat, lng) == [type |-> "LatLng", lat |-> lat, lng |-> lng]

\* JavaScript truthiness, as `if (geolocation)` and `!setting.name` use it.
Truthy(v) ==
    CASE v.type = "undefined" -> FALSE
      [] v.type = "null" -> FALSE
      [] v.type = "string" -> v.val # <<>>
      [] OTHER -> TRUE

\* Reading a property of null or undefined throws a TypeError.
PropertyAccessThrows(v) == v.type \in {"null", "undefined"}

Digit(d) == <<"0", "1", "2", "3", "4", "5", "6", "7", "8", "9">>[d + 1]

RECURSIVE NatToString(_)
NatToString(n) ==
    IF n < 10 THEN <<Digit(n)>> ELSE NatToString(n \div 10) \o <<Digit(n % 10)>>

\* Number.prototype.toString of the number n/100: sign, integer part, and the
\* fraction without trailing zeros.
NumToString(n) ==
    LET a == IF n < 0 THEN -n ELSE n
        frac == a % 100
    IN  (IF n < 0 THEN <<"-">> ELSE <<>>)
        \o NatToString(a \div 100)
        \o (IF frac = 0 THEN <<>>
            ELSE <<".", Digit(frac \div 10)>>
                 \o (IF frac % 10 = 0 THEN <<>> ELSE <<Digit(frac % 10)>>))

\* String.prototype.indexOf, 1-based; 0 when t does not occur in s.
IndexOf(s, t) ==
    LET occ == {i \in 1..(Len(s) - Len(t) + 1) : SubSeq(s, i, i + Len(t) - 1) = t}
    IN  IF occ = {} THEN 0 ELSE CHOOSE i \in occ : \A j \in occ : i <= j

RECURSIVE replaceAll(_, _, _)
replaceAll(s, t, r) ==
    LET i == IndexOf(s, t)
    IN  IF i = 0 THEN s
        ELSE SubSeq(s, 1, i - 1) \o r \o replaceAll(SubSeq(s, i + Len(t), Len(s)), t, r)

\* String.prototype.replace with a string pattern: the first occurrence only.
\* (The replacements here are formatted numbers, which hold no "$".)
replace(s, t, r) ==
    LET i == IndexOf(s, t)
    IN  IF i = 0 THEN s
        ELSE SubSeq(s, 1, i - 1) \o r \o SubSeq(s, i + Len(t), Len(s))

TokenX == <<"{", "x", "}">>
TokenY == <<"{", "y", "}">>

---------------------------------------------------------------------------
(* The Menu and the contributors *)

Returned(m) == [menu |-> m, thrown |-> "none"]
Threw(m, e) == [menu |-> m, thrown |-> e]

\* Menu.addItem: the item the callback configures is added after the others.
addItem(m, item) == Append(m, item)

\* `${geolocation.lat},${geolocation.lng}`
locationString(geolocation) ==
    NumToString(geolocation.lat) \o <<",">> \o NumToString(geolocation.lng)

addShowOnMap(m, geolocation, file, editorLine) ==
    IF Truthy(geolocation)
    THEN Returned(addItem(m, [title |-> <<"Show on map">>, icon |-> "globe",
                              section |-> "mapview",
                              onClick |-> [handler |-> "showOnMap",
                                           geolocation |-> geolocation,
                                           file |-> file, editorLine |-> editorLine]]))
    ELSE Returned(m)

fullUrlOf_global(urlPattern, location) ==
    replaceAll(replaceAll(urlPattern, TokenX, NumToString(location.lat)),
               TokenY, NumToString(location.lng))

\* setting.urlPattern.replace('{x}', lat.toString()).replace('{y}', lng.toString())
fullUrlOf(urlPattern, location) ==
    replace(replace(urlPattern, TokenX, NumToString(location.lat)),
            TokenY, NumToString(location.lng))

openInItem(setting, location) ==
    [title |-> <<"Open in ">> \o setting.name.val, icon |-> "map-pin",
     section |-> "mapview",
     onClick |-> [handler |-> "openIn",
                  fullUrl |-> fullUrlOf(setting.urlPattern.val, location)]]

RECURSIVE populateFrom_break(_, _, _, _)
populateFrom_break(m, location, openIn, i) ==
    IF i > Len(openIn) THEN Returned(m)
    ELSE LET setting == openIn[i]
         IN  IF ~Truthy(setting.name) \/ ~Truthy(setting.urlPattern)
             THEN Returned(m)
             ELSE IF PropertyAccessThrows(location)
                  THEN Threw(m, "TypeError")
                  ELSE populateFrom_break(addItem(m, openInItem(setting, location)),
                                          location, openIn, i + 1)

\* The loop of populateOpenInItems from entry i on.  Reading location.lat of
\* an absent location throws at the first entry that passes the test.
RECURSIVE populateFrom(_, _, _, _)
populateFrom(m, location, openIn, i) ==
    IF i > Len(openIn) THEN Returned(m)
    ELSE LET setting == openIn[i]
         IN  IF ~Truthy(setting.name) \/ ~Truthy(setting.urlPattern)
             THEN populateFrom(m, location, openIn, i + 1)
             ELSE IF PropertyAccessThrows(location)
                  THEN Threw(m, "TypeError")
                  ELSE populateFrom(addItem(m, openInItem(setting, location)),
                                    location, openIn, i + 1)

populateOpenInItems_break(m, location, s) == populateFrom_break(m, location, s.openIn, 1)

populateOpenInItems(m, location, s) == populateFrom(m, location, s.openIn, 1)

openWithDefaultItem(geolocation) ==
    [title |-> <<"Open with default app">>, icon |-> "map-pin",
     section |-> "mapview",
     onClick |-> [handler |-> "openWithDefault", geolocation |-> geolocation]]

addOpenWith_defaultLast(m, geolocation, s) ==
    IF Truthy(geolocation)
    THEN LET r == populateOpenInItems(m, geolocation, s)
         IN  [r EXCEPT !.menu = addItem(@, openWithDefaultItem(geolocation))]
    ELSE Returned(m)

addOpenWith_noGuard(m, geolocation, s) ==
    populateOpenInItems(addItem(m, openWithDefaultItem(geolocation)), geolocation, s)

addOpenWith(m, geolocation, s) ==
    IF Truthy(geolocation)
    THEN populateOpenInItems(addItem(m, openWithDefaultItem(geolocation)),
                             geolocation, s)
    ELSE Returned(m)

addGeolocationToNote(m, editor) ==
    Returned(addItem(m, [title |-> <<"Add geolocation (front matter)">>,
                         icon |-> "globe", section |-> "mapview",
                         onClick |-> [handler |-> "addToNote", editor |-> editor]]))

\* utils.trimmedFileName(file): the display name of the file.
trimmedFileName(file) == <<file.basename>>

addFocusNoteInMapView(m, file) ==
    Returned(addItem(m, [title |-> <<"Focus '">> \o trimmedFileName(file)
                                   \o <<"' in Map View">>,
                         icon |-> "globe", section |-> "mapview",
                         onClick |-> [handler |-> "focusNote", file |-> file]]))

geosearchItem(editor) ==
    [title |-> <<"Convert to geolocation (geosearch)">>, icon |-> "search",
     section |-> "mapview",
     onClick |-> [handler |-> "geosearch", editor |-> editor]]

convertItem(editor) ==
    [title |-> <<"Convert to geolocation">>, icon |-> "search",
     section |-> "mapview",
     onClick |-> [handler |-> "convert", editor |-> editor]]

pasteItem(editor) ==
    [title |-> <<"Paste as geolocation">>, icon |-> "clipboard-x",
     section |-> "mapview",
     onClick |-> [handler |-> "paste", editor |-> editor]]

addUrlConversionItems_elseIf(m, editor) ==
    LET m1 == IF Truthy(editor.selection) THEN addItem(m, geosearchItem(editor))
              ELSE IF editor.hasMatchInLine THEN addItem(m, convertItem(editor))
              ELSE m
    IN  Returned(addItem(m1, pasteItem(editor)))

\* editor.selection is editor.getSelection(); editor.hasMatchInLine is what
\* urlConvertor.hasMatchInLine(editor) reports.
addUrlConversionItems(m, editor) ==
    LET m1 == IF Truthy(editor.selection) THEN addItem(m, geosearchItem(editor)) ELSE m
        m2 == IF editor.hasMatchInLine THEN addItem(m1, convertItem(editor)) ELSE m1
    IN  Returned(addItem(m2, pasteItem(editor)))

newNoteItem(title, mode, geolocation) ==
    [title |-> <<title>>, icon |-> "edit", section |-> "new",
     onClick |-> [handler |-> "newNote", mode |-> mode,
                  locationString |-> locationString(geolocation)]]

addNewNoteItems(m, geolocation) ==
    IF PropertyAccessThrows(geolocation)
    THEN Threw(m, "TypeError")
    ELSE Returned(addItem(addItem(m,
             newNoteItem("New note here (inline)", "multiLocation", geolocation)),
             newNoteItem("New note here (front matter)", "singleLocation", geolocation)))

copyItem(title, text) ==
    [title |-> <<title>>, icon |-> "copy", section |-> "copy",
     onClick |-> [handler |-> "copy", text |-> text]]

addCopyGeolocationItems(m, geolocation) ==
    IF PropertyAccessThrows(geolocation)
    THEN Threw(m, "TypeError")
    ELSE Returned(addItem(addItem(m,
             copyItem("Copy geolocation",
                      <<"[](geo:">> \o locationString(geolocation) \o <<")">>)),
             copyItem("Copy geolocation as front matter",
                      <<"---\nlocation: [">> \o locationString(geolocation)
                      \o <<"]\n---\n\n">>)))

addFocusLinesInMapView(m, file, fromLine, toLine, numLocations) ==
    Returned(addItem(m,
        [title |-> <<"Focus ">> \o NatToString(numLocations)
                   \o <<IF numLocations > 1 THEN " geolocations" ELSE " geolocation",
                        " in Map View">>,
         icon |-> "globe", section |-> "mapview",
         onClick |-> [handler |-> "focusLines", file |-> file,
                      fromLine |-> fromLine, toLine |-> toLine]]))

addImport(m, editor) ==
    Returned(addItem(m, [title |-> <<"Import geolocations from file...">>,
                         icon |-> "globe", section |-> "mapview",
                         onClick |-> [handler |-> "import", editor |-> editor]]))

---------------------------------------------------------------------------
(* The caller's contexts *)

Point1 == LatLng(150, -225)      \* (1.5, -2.25)
Point2 == LatLng(1000, 2000)     \* (10, 20)
Point3 == LatLng(0, -5)          \* (0, -0.05)

File1 == [path |-> "Notes/A.md", basename |-> "A"]

Pattern1 == <<"u", "/">> \o TokenX \o <<"/">> \o TokenY

\* Open-in rules: two well-formed ones and the four malformed shapes.
Rules ==
    { [name |-> Str(<<"A">>), urlPattern |-> Str(Pattern1)],
      [name |-> Str(<<"B">>), urlPattern |-> Str(Pattern1)],
      [name |-> Str(<<>>), urlPattern |-> Str(Pattern1)],
      [name |-> Undefined, urlPattern |-> Str(Pattern1)],
      [name |-> Str(<<"A">>), urlPattern |-> Str(<<>>)],
      [name |-> Str(<<"A">>), urlPattern |-> Undefined] }

SeqsUpTo(S, n) == UNION {[1..k -> S] : k \in 0..n}

Geolocations == {Null, Point1}

Editors == [selection : {Str(<<>>), Str(<<"s">>)}, hasMatchInLine : BOOLEAN]

Editor1 == [selection |-> Str(<<"s">>), hasMatchInLine |-> TRUE]

\* URL patterns made of up to MaxPatPieces pieces, tokens and token fragments.
Pieces == {TokenX, TokenY, <<"/">>, <<"{">>, <<"x", "}">>}

RECURSIVE Flatten(_)
Flatten(ps) == IF ps = <<>> THEN <<>> ELSE Head(ps) \o Flatten(Tail(ps))

Patterns == {Flatten(ps) : ps \in SeqsUpTo(Pieces, MaxPatPieces)}

---------------------------------------------------------------------------
(* Contributor calls *)

Call(call, r) ==
    /\ ncalls < MaxCalls
    /\ ncalls' = ncalls + 1
    /\ lastCall' = call
    /\ menu' = r.menu
    /\ outcome' = IF r.thrown = "none" THEN "returned" ELSE r.thrown
    /\ UNCHANGED <<settings, tasks, files>>

CallAddShowOnMap ==
    \E g \in Geolocations :
        Call([fn |-> "addShowOnMap", geolocation |-> g],
             addShowOnMap(menu, g, File1, 3))

CallAddOpenWith ==
    \E g \in Geolocations :
        Call([fn |-> "addOpenWith", geolocation |-> g],
             addOpenWith(menu, g, settings))

CallPopulateOpenInItems(G) ==
    \E g \in G :
        Call([fn |-> "populateOpenInItems", geolocation |-> g],
             populateOpenInItems(menu, g, settings))

CallAddGeolocationToNote ==
    Call([fn |-> "addGeolocationToNote"], addGeolocationToNote(menu, Editor1))

CallAddFocusNoteInMapView ==
    Call([fn |-> "addFocusNoteInMapView", file |-> File1],
         addFocusNoteInMapView(menu, File1))

CallAddUrlConversionItems ==
    \E e \in Editors :
        Call([fn |-> "addUrlConversionItems", editor |-> e],
             addUrlConversionItems(menu, e))

CallAddNewNoteItems ==
    \E g \in Geolocations :
        Call([fn |-> "addNewNoteItems", geolocation |-> g],
             addNewNoteItems(menu, g))

CallAddCopyGeolocationItems ==
    \E g \in Geolocations :
        Call([fn |-> "addCopyGeolocationItems", geolocation |-> g],
             addCopyGeolocationItems(menu, g))

CallAddFocusLinesInMapView ==
    \E n \in {1, 2} :
        Call([fn |-> "addFocusLinesInMapView", file |-> File1, numLocations |-> n],
             addFocusLinesInMapView(menu, File1, 3, 9, n))

CallAddImport ==
    Call([fn |-> "addImport"], addImport(menu, Editor1))

InitMenu ==
    /\ settings \in [openIn : SeqsUpTo(Rules, MaxRules)]
    /\ menu = <<>>
    /\ lastCall = [fn |-> "none"]
    /\ outcome = "none"
    /\ ncalls = 0
    /\ tasks = <<>>
    /\ files = <<>>

NextMenu ==
    \/ CallAddShowOnMap
    \/ CallAddOpenWith
    \/ CallPopulateOpenInItems(Geolocations)
    \/ CallAddGeolocationToNote
    \/ CallAddFocusNoteInMapView
    \/ CallAddUrlConversionItems
    \/ CallAddNewNoteItems
    \/ CallAddCopyGeolocationItems
    \/ CallAddFocusLinesInMapView
    \/ CallAddImport

\* Any sequence of contributor calls on one menu.
Spec == InitMenu /\ [][NextMenu]_vars

\* populateOpenInItems on one well-formed rule, over the URL patterns and points.
InitUrl ==
    /\ settings \in {[openIn |-> <<[name |-> Str(<<"A">>), urlPattern |-> Str(p)]>>] :
                         p \in Patterns}
    /\ menu = <<>>
    /\ lastCall = [fn |-> "none"]
    /\ outcome = "none"
    /\ ncalls = 0
    /\ tasks = <<>>
    /\ files = <<>>

NextUrl == CallPopulateOpenInItems({Point1, Point2, Point3})

SpecUrl == InitUrl /\ [][NextUrl]_vars

---------------------------------------------------------------------------
(* Click handlers.  A task is one run of an item's onClick callback:        *)
(*   onClick  the item's callback with what it closed over                  *)
(*   pc       "await" (suspended at an await), "done" (completed normally), *)
(*            "failed" (the async callback's promise rejected, or the       *)
(*            synchronous callback threw)                                   *)
(*   promise  the collaborator's promise the task last obtained             *)
(*   hist     what happened in the task, in order: the calls it made, the   *)
(*            settling of its promise, its resumptions                      *)

NoPromise == [call |-> "none", state |-> "none", value |-> Undefined]
Pending(fn) == [call |-> fn, state |-> "pending", value |-> Undefined]

ParsedLocation(p) == [type |-> "ParsedLocation", location |-> p]
PromiseObject == [type |-> "Promise"]

Ev(e, fn) == [ev |-> e, fn |-> fn]

\* The callback calls collaborator fn, gets a promise and suspends awaiting it.
CallAndAwait(onClick, before, fn) ==
    [onClick |-> onClick, pc |-> "await", promise |-> Pending(fn),
     hist |-> before \o <<Ev("call", fn)>>]

CallAndForget(onClick, before, fn) ==
    [onClick |-> onClick, pc |-> "done", promise |-> Pending(fn),
     hist |-> before \o <<Ev("call", fn)>>]

\* A synchronous call of fn that returns (env = "returns") or throws.
CallSync(onClick, fn, env) ==
    [onClick |-> onClick, pc |-> IF env = "throws" THEN "failed" ELSE "done",
     promise |-> NoPromise,
     hist |-> <<Ev("call", fn), Ev(IF env = "throws" THEN "threw" ELSE "returned", fn)>>]

\* async (evt) => await plugin.openMapWithLocation(geolocation, ...)
onClickShowOnMap(onClick) == CallAndAwait(onClick, <<>>, "openMapWithLocation")

\* (_ev) => { open(`geo:${geolocation.lat},${geolocation.lng}`) }
onClickOpenWithDefault(onClick) ==
    [onClick |-> onClick, pc |-> "done", promise |-> NoPromise,
     hist |-> <<[ev |-> "open", fn |-> "open",
                 url |-> <<"geo:">> \o locationString(onClick.geolocation)]>>]

\* (_ev) => { open(fullUrl) }
onClickOpenIn(onClick) ==
    [onClick |-> onClick, pc |-> "done", promise |-> NoPromise,
     hist |-> <<[ev |-> "open", fn |-> "open", url |-> onClick.fullUrl]>>]

\* async (_evt) => { const dialog = new LocationSearchDialog(...); dialog.open() }
onClickAddToNote(onClick, env) == CallSync(onClick, "LocationSearchDialog.open", env)

\* async (evt) => await plugin.openMapWithState({query: ...}, evt.ctrlKey, true)
onClickFocus(onClick) == CallAndAwait(onClick, <<>>, "openMapWithState")

\* async () => await suggestor.selectionToLink(editor)
onClickGeosearch(onClick) == CallAndAwait(onClick, <<>>, "selectionToLink")

\* async () => { urlConvertor.convertUrlAtCursorToGeolocation(editor) }: the
\* call is not awaited; it returns undefined or a promise, or throws.
onClickConvert(onClick, env) ==
    IF env = "promise"
    THEN CallAndForget(onClick, <<>>, "convertUrlAtCursorToGeolocation")
    ELSE CallSync(onClick, "convertUrlAtCursorToGeolocation", env)

\* async () => { const clipboard = await navigator.clipboard.readText(); ...
onClickPaste(onClick) == CallAndAwait(onClick, <<>>, "readText")

onClickNewNote_noAwait(onClick) ==
    [onClick |-> onClick, pc |-> "await", promise |-> Pending("newNote"),
     hist |-> <<Ev("call", "formatWithTemplates"), Ev("call", "newNote"),
                [ev |-> "goToFile", fn |-> "goToFile", file |-> Undefined]>>]

\* async (ev) => { const newFileName = utils.formatWithTemplates(...);
\*                 const file = await utils.newNote(...); ...
onClickNewNote(onClick) ==
    CallAndAwait(onClick, <<Ev("call", "formatWithTemplates")>>, "newNote")

\* (_ev) => { navigator.clipboard.writeText(...) }: the promise is dropped.
onClickCopy(onClick) ==
    [onClick |-> onClick, pc |-> "done", promise |-> Pending("writeText"),
     hist |-> <<[ev |-> "call", fn |-> "writeText", text |-> onClick.text]>>]

\* async (evt) => { const importDialog = new ImportDialog(...); importDialog.open() }
onClickImport(onClick, env) == CallSync(onClick, "ImportDialog.open", env)

\* What a synchronous collaborator call of the callback can do.
ClickEnvs(onClick) ==
    CASE onClick.handler \in {"addToNote", "import"} -> {"returns", "throws"}
      [] onClick.handler = "convert" -> {"returns", "promise", "throws"}
      [] OTHER -> {"returns"}

\* The callback of an item, run up to its first await or to its end.
start(onClick, env) ==
    CASE onClick.handler = "showOnMap" -> onClickShowOnMap(onClick)
      [] onClick.handler = "openWithDefault" -> onClickOpenWithDefault(onClick)
      [] onClick.handler = "openIn" -> onClickOpenIn(onClick)
      [] onClick.handler = "addToNote" -> onClickAddToNote(onClick, env)
      [] onClick.handler \in {"focusNote", "focusLines"} -> onClickFocus(onClick)
      [] onClick.handler = "geosearch" -> onClickGeosearch(onClick)
      [] onClick.handler = "convert" -> onClickConvert(onClick, env)
      [] onClick.handler = "paste" -> onClickPaste(onClick)
      [] onClick.handler = "newNote" -> onClickNewNote(onClick)
      [] onClick.handler = "copy" -> onClickCopy(onClick)
      [] onClick.handler = "import" -> onClickImport(onClick, env)

Finish(task, pc, events) ==
    [task EXCEPT !.pc = pc, !.hist = @ \o <<Ev("resumed", task.promise.call)>> \o events]

\* The awaited promise rejected: the callback has no try/catch, so it fails.
resumeRejected_caught(task) == Finish(task, "done", <<>>)

resumeRejected(task) == Finish(task, "failed", <<>>)

\* `await plugin.openMapWithLocation(...)` and the like: nothing follows.
resumeAwaited(task) == Finish(task, "done", <<>>)

newNoteFile_latest(task) == files[Len(files)]

\* const file: TFile = await utils.newNote(...): the value of this task's promise.
newNoteFile(task) == task.promise.value

\* mapContainer.goToFile(file, ev.ctrlKey, utils.handleNewNoteCursorMarker):
\* a synchronous call that returns (env = "returns") or throws.
resumeNewNote(task, env) ==
    Finish(task, IF env = "throws" THEN "failed" ELSE "done",
           <<[ev |-> "goToFile", fn |-> "goToFile", file |-> newNoteFile(task)],
             Ev(IF env = "throws" THEN "threw" ELSE "returned", "goToFile")>>)

afterParse_always(task, events, clipboardLocation) ==
    Finish(task, "done",
           events \o <<[ev |-> "insertLocationToEditor",
                        fn |-> "insertLocationToEditor",
                        location |-> IF Truthy(clipboardLocation)
                                     THEN clipboardLocation.location ELSE Undefined]>>)

\* if (clipboardLocation) urlConvertor.insertLocationToEditor(clipboardLocation.location, editor)
afterParse(task, events, clipboardLocation) ==
    IF Truthy(clipboardLocation)
    THEN Finish(task, "done",
                events \o <<[ev |-> "insertLocationToEditor",
                             fn |-> "insertLocationToEditor",
                             location |-> clipboardLocation.location]>>)
    ELSE Finish(task, "done", events)

\* let clipboardLocation = urlConvertor.parseLocationFromUrl(clipboard);
\* if (clipboardLocation instanceof Promise) clipboardLocation = await clipboardLocation;
resumePasteRead(task, parsed) ==
    LET call == [ev |-> "call", fn |-> "parseLocationFromUrl",
                 text |-> task.promise.value, returned |-> parsed]
    IN  IF parsed.type = "Promise"
        THEN [task EXCEPT !.promise = Pending("parseLocationFromUrl"),
                          !.hist = @ \o <<Ev("resumed", "readText"), call>>]
        ELSE afterParse(task, <<call>>, parsed)

\* What parseLocationFromUrl can return.
ParseResults == {Null, ParsedLocation(Point1), PromiseObject}

\* What the synchronous call made on resumption can do.
ResumeEnvs(task) ==
    IF task.promise.state # "resolved" THEN {"returns"}
    ELSE CASE task.promise.call = "readText" -> ParseResults
           [] task.promise.call = "newNote" -> {"returns", "throws"}
           [] OTHER -> {"returns"}

\* The task continues after its awaited promise has settled.
resume(task, env) ==
    IF task.promise.state = "rejected" THEN resumeRejected(task)
    ELSE CASE task.promise.call = "newNote" -> resumeNewNote(task, env)
           [] task.promise.call = "readText" -> resumePasteRead(task, env)
           [] task.promise.call = "parseLocationFromUrl" ->
                  afterParse(task, <<>>, task.promise.value)
           [] OTHER -> resumeAwaited(task)

\* The values a collaborator's promise can resolve with.  utils.newNote creates
\* a file and resolves with its handle (call: the task whose call created it).
ResolveValues(t) ==
    LET c == tasks[t].promise.call
    IN  CASE c = "newNote" ->
                 {[type |-> "TFile", id |-> Len(files) + 1, call |-> t,
                   mode |-> tasks[t].onClick.mode,
                   locationString |-> tasks[t].onClick.locationString]}
          [] c = "readText" -> {Str(<<>>), Str(<<"g">>)}
          [] c = "parseLocationFromUrl" -> {Null, ParsedLocation(Point1)}
          [] OTHER -> {Undefined}

Settled(task, state, v) ==
    [task EXCEPT !.promise.state = state, !.promise.value = v,
                 !.hist = @ \o <<[ev |-> "settled", fn |-> task.promise.call,
                                  state |-> state]>>]

MenuFrame == UNCHANGED <<settings, menu, lastCall, outcome, ncalls>>

\* The user clicks an item of the menu.
Click ==
    /\ Len(tasks) < MaxClicks
    /\ \E i \in 1..Len(menu) : \E env \in ClickEnvs(menu[i].onClick) :
           tasks' = Append(tasks, start(menu[i].onClick, env))
    /\ UNCHANGED files
    /\ MenuFrame

\* A collaborator's promise resolves.
ResolveTask(t) ==
    /\ tasks[t].promise.state = "pending"
    /\ \E v \in ResolveValues(t) :
           /\ tasks' = [tasks EXCEPT ![t] = Settled(@, "resolved", v)]
           /\ files' = IF v.type = "TFile" THEN Append(files, v) ELSE files
    /\ MenuFrame

\* A collaborator's promise rejects.
RejectTask(t) ==
    /\ tasks[t].promise.state = "pending"
    /\ tasks' = [tasks EXCEPT ![t] = Settled(@, "rejected", Undefined)]
    /\ UNCHANGED files
    /\ MenuFrame

\* The event loop resumes a task whose awaited promise has settled.
ResumeTask(t) ==
    /\ tasks[t].pc = "await"
    /\ tasks[t].promise.state \in {"resolved", "rejected"}
    /\ \E env \in ResumeEnvs(tasks[t]) :
           tasks' = [tasks EXCEPT ![t] = resume(@, env)]
    /\ UNCHANGED files
    /\ MenuFrame

Resolve == \E t \in 1..Len(tasks) : ResolveTask(t)
Reject == \E t \in 1..Len(tasks) : RejectTask(t)
Resume == \E t \in 1..Len(tasks) : ResumeTask(t)

\* The menu the caller builds for a geolocation on a line of a note.
BuiltMenu(s) ==
    LET m1 == addShowOnMap(<<>>, Point1, File1, 3).menu
        m2 == addOpenWith(m1, Point1, s).menu
        m3 == addGeolocationToNote(m2, Editor1).menu
        m4 == addFocusNoteInMapView(m3, File1).menu
        m5 == addUrlConversionItems(m4, Editor1).menu
        m6 == addNewNoteItems(m5, Point1).menu
        m7 == addCopyGeolocationItems(m6, Point1).menu
        m8 == addFocusLinesInMapView(m7, File1, 3, 9, 2).menu
    IN  addImport(m8, Editor1).menu

InitHandlers ==
    /\ settings = [openIn |-> <<[name |-> Str(<<"A">>), urlPattern |-> Str(Pattern1)]>>]
    /\ menu = BuiltMenu(settings)
    /\ lastCall = [fn |-> "addImport"]
    /\ outcome = "returned"
    /\ ncalls = 9
    /\ tasks = <<>>
    /\ files = <<>>

NextHandlers == Click \/ Resolve \/ Reject \/ Resume

\* The clicks on a built menu and the handlers they start.
SpecHandlers == InitHandlers /\ [][NextHandlers]_vars

---------------------------------------------------------------------------
(* Properties of the contributors *)

Titles(m) == [i \in 1..Len(m) |-> m[i].title]

\* The items a call appended to the menu.
Appended(before, after) == SubSeq(after, Len(before) + 1, Len(after))

IsCall(fn) == ncalls' = ncalls + 1 /\ lastCall'.fn = fn

NonEmptyString(v) == v.type = "string" /\ Len(v.val) > 0

WellFormed(rule) == NonEmptyString(rule.name) /\ NonEmptyString(rule.urlPattern)

OpenInTitles(openIn) ==
    LET ok == SelectSeq(openIn, WellFormed)
    IN  [i \in 1..Len(ok) |-> <<"Open in ">> \o ok[i].name.val]

\* C1: with a present geolocation, populateOpenInItems returns normally and
\* appends exactly the items "Open in <name>" of the entries of settings.openIn
\* whose name and urlPattern are both non-empty, in the order of settings.openIn;
\* the items already in the menu stay.
C1_OpenInItemsFollowWellFormedRules ==
    [][(IsCall("populateOpenInItems") /\ lastCall'.geolocation.type = "LatLng")
        => /\ outcome' = "returned"
           /\ SubSeq(menu', 1, Len(menu)) = menu
           /\ Titles(Appended(menu, menu')) = OpenInTitles(settings.openIn)]_vars

\* A malformed entry came first and the well-formed entry after it got its item.
C1_Witness ==
    /\ lastCall.fn = "populateOpenInItems"
    /\ lastCall.geolocation = Point1
    /\ ncalls = 1
    /\ Len(settings.openIn) = 2
    /\ settings.openIn[1].name = Undefined
    /\ settings.openIn[2].name = Str(<<"B">>)
    /\ Titles(menu) = <<(<<"Open in ", "B">>)>>

\* The contributors that take a geolocation.
TakesGeolocation ==
    {"addShowOnMap", "addOpenWith", "addNewNoteItems", "addCopyGeolocationItems"}

\* C2: a contributor called with an absent geolocation returns normally and
\* leaves the menu as it was.
C2_AbsentGeolocationRaisesNothing ==
    [][(ncalls' = ncalls + 1 /\ lastCall'.fn \in TakesGeolocation
        /\ lastCall'.geolocation.type # "LatLng")
        => (outcome' = "returned" /\ menu' = menu)]_vars

\* C3: addShowOnMap and addOpenWith called with an absent geolocation return
\* normally and leave the menu as it was.
C3_AbsentGeolocationIsNoOp ==
    [][((IsCall("addShowOnMap") \/ IsCall("addOpenWith"))
        /\ lastCall'.geolocation.type # "LatLng")
        => (menu' = menu /\ outcome' = "returned")]_vars

\* addOpenWith was called on a non-empty menu without a geolocation while a
\* well-formed open-in rule is configured.
C3_Witness ==
    /\ lastCall.fn = "addOpenWith"
    /\ lastCall.geolocation = Null
    /\ ncalls = 2
    /\ Len(menu) > 0
    /\ \E i \in 1..Len(settings.openIn) : WellFormed(settings.openIn[i])
    /\ outcome = "returned"

UrlConversionTitles(editor) ==
    (IF NonEmptyString(editor.selection)
     THEN <<(<<"Convert to geolocation (geosearch)">>)>> ELSE <<>>)
    \o (IF editor.hasMatchInLine THEN <<(<<"Convert to geolocation">>)>> ELSE <<>>)
    \o <<(<<"Paste as geolocation">>)>>

\* C9: addUrlConversionItems appends "Convert to geolocation (geosearch)" iff
\* the selection is non-empty, then "Convert to geolocation" iff hasMatchInLine
\* reports a match, then "Paste as geolocation" always.
C9_UrlConversionItemsGatedIndependently ==
    [][IsCall("addUrlConversionItems")
        => /\ outcome' = "returned"
           /\ SubSeq(menu', 1, Len(menu)) = menu
           /\ Titles(Appended(menu, menu')) = UrlConversionTitles(lastCall'.editor)]_vars

\* With a selection and a match, all three items, in that order.
C9_Witness ==
    /\ lastCall.fn = "addUrlConversionItems"
    /\ lastCall.editor = Editor1
    /\ ncalls = 1
    /\ Titles(menu) = <<(<<"Convert to geolocation (geosearch)">>),
                        (<<"Convert to geolocation">>),
                        (<<"Paste as geolocation">>)>>

\* The titles a call contributes, in the order the contributor is coded.
ContributedTitles(call, s) ==
    LET present == call.geolocation.type = "LatLng"
    IN  CASE call.fn = "addShowOnMap" ->
                 IF present THEN <<(<<"Show on map">>)>> ELSE <<>>
          [] call.fn = "addOpenWith" ->
                 IF present
                 THEN <<(<<"Open with default app">>)>> \o OpenInTitles(s.openIn)
                 ELSE <<>>
          [] call.fn = "populateOpenInItems" ->
                 IF present THEN OpenInTitles(s.openIn) ELSE <<>>
          [] call.fn = "addGeolocationToNote" ->
                 <<(<<"Add geolocation (front matter)">>)>>
          [] call.fn = "addFocusNoteInMapView" ->
                 <<(<<"Focus '", call.file.basename, "' in Map View">>)>>
          [] call.fn = "addUrlConversionItems" -> UrlConversionTitles(call.editor)
          [] call.fn = "addNewNoteItems" ->
                 IF present
                 THEN <<(<<"New note here (inline)">>),
                        (<<"New note here (front matter)">>)>>
                 ELSE <<>>
          [] call.fn = "addCopyGeolocationItems" ->
                 IF present
                 THEN <<(<<"Copy geolocation">>),
                        (<<"Copy geolocation as front matter">>)>>
                 ELSE <<>>
          [] call.fn = "addFocusLinesInMapView" ->
                 <<IF call.numLocations > 1
                   THEN <<"Focus ", "2", " geolocations", " in Map View">>
                   ELSE <<"Focus ", "1", " geolocation", " in Map View">>>>
          [] call.fn = "addImport" ->
                 <<(<<"Import geolocations from file...">>)>>

\* C10: every contributor call leaves the items already in the menu in place
\* and appends its own items after them, in its coded order.
C10_MenuIsConcatenationOfContributions ==
    [][ncalls' = ncalls + 1
        => /\ SubSeq(menu', 1, Len(menu)) = menu
           /\ Titles(Appended(menu, menu')) = ContributedTitles(lastCall', settings)]_vars

\* addOpenWith appended "Open with default app" and an "Open in" item after an
\* item of an earlier call.
C10_Witness ==
    /\ lastCall.fn = "addOpenWith"
    /\ ncalls = 2
    /\ Titles(menu) = <<(<<"Copy geolocation">>),
                        (<<"Copy geolocation as front matter">>),
                        (<<"Open with default app">>),
                        (<<"Open in ", "B">>)>>

---------------------------------------------------------------------------
(* Properties of the URL of an "Open in" item *)

\* The occurrences of token tok in pattern p.
Occurrences(p, tok) ==
    {i \in 1..Len(p) : i + 2 <= Len(p) /\ <<p[i], p[i + 1], p[i + 2]>> = tok}

\* The first occurrence, 0 when there is none.
First(S) == IF S = {} THEN 0 ELSE CHOOSE i \in S : \A j \in S : i <= j

RECURSIVE Concat(_, _)
Concat(f, n) == IF n = 0 THEN <<>> ELSE Concat(f, n - 1) \o f[n]

\* Pattern p with the first {x} replaced by lat and the first {y} by lng, both
\* located in p itself; every other character stays.
Substituted(p, lat, lng) ==
    LET ix == First(Occurrences(p, TokenX))
        iy == First(Occurrences(p, TokenY))
        piece == [i \in 1..Len(p) |->
                     IF ix # 0 /\ i = ix THEN lat
                     ELSE IF iy # 0 /\ i = iy THEN lng
                     ELSE IF (ix # 0 /\ i \in (ix + 1)..(ix + 2))
                             \/ (iy # 0 /\ i \in (iy + 1)..(iy + 2)) THEN <<>>
                     ELSE <<p[i]>>]
    IN  Concat(piece, Len(p))

\* C8: the URL of the "Open in" item that populateOpenInItems added last is the
\* rule's pattern with the first {x} replaced by the latitude and the first {y}
\* by the longitude, later occurrences left as they are.
C8_FirstOccurrenceOfEachTokenReplaced ==
    (lastCall.fn = "populateOpenInItems" /\ WellFormed(settings.openIn[1]))
        => /\ outcome = "returned"
           /\ Len(menu) = ncalls
           /\ menu[Len(menu)].onClick.fullUrl
                 = Substituted(settings.openIn[1].urlPattern.val,
                               NumToString(lastCall.geolocation.lat),
                               NumToString(lastCall.geolocation.lng))

\* {y} before {x}, and {x} twice: "{y}{x}{x}" at (1.5, -2.25) gives "-2.251.5{x}".
C8_Witness ==
    /\ lastCall.fn = "populateOpenInItems"
    /\ lastCall.geolocation = Point1
    /\ settings.openIn[1].urlPattern.val = TokenY \o TokenX \o TokenX
    /\ menu[Len(menu)].onClick.fullUrl
          = <<"-", "2", ".", "2", "5", "1", ".", "5", "{", "x", "}">>

---------------------------------------------------------------------------
(* Properties of the click handlers *)

Tasks == 1..Len(tasks)

\* The positions in a task's history of the events e of collaborator fn.
At(h, e, fn) == {k \in 1..Len(h) : h[k].ev = e /\ h[k].fn = fn}

SettledAt(h, fn, state) == {k \in At(h, "settled", fn) : h[k].state = state}

Before(S, T) == \A k \in T : \E j \in S : j < k

IsNewNote(t) == tasks[t].onClick.handler = "newNote"

\* C4: in a "New note here" handler the name is formatted before newNote is
\* called, goToFile is called only after this handler's newNote call has
\* resolved, with a file handle, at most once, and not at all when newNote
\* failed.
C4_NavigateOnlyAfterFileCreated ==
    \A t \in Tasks : IsNewNote(t) =>
        LET h == tasks[t].hist
            go == At(h, "goToFile", "goToFile")
        IN  /\ Before(At(h, "call", "formatWithTemplates"), At(h, "call", "newNote"))
            /\ Before(At(h, "call", "newNote"), SettledAt(h, "newNote", "resolved"))
            /\ Before(SettledAt(h, "newNote", "resolved"), go)
            /\ \A k \in go : h[k].file.type = "TFile"
            /\ Cardinality(go) <= 1
            /\ tasks[t].promise.state = "rejected" => go = {}
            /\ tasks[t].pc = "done" => Cardinality(go) = 1

\* A "New note here" handler that created its file and navigated to it.
C4_Witness ==
    \E t \in Tasks :
        /\ IsNewNote(t)
        /\ tasks[t].pc = "done"
        /\ Len(files) = 1
        /\ At(tasks[t].hist, "goToFile", "goToFile") = {5}
        /\ tasks[t].hist[5].file = files[1]

IsPaste(t) == tasks[t].onClick.handler = "paste"

\* What the parse of a paste task recovered: the value parseLocationFromUrl
\* returned, or the value its promise resolved with; Undefined while unknown.
Recovered(t) ==
    LET h == tasks[t].hist
        calls == At(h, "call", "parseLocationFromUrl")
    IN  IF calls = {} THEN Undefined
        ELSE LET r == h[First(calls)].returned
             IN  IF r.type # "Promise" THEN r
                 ELSE IF SettledAt(h, "parseLocationFromUrl", "resolved") # {}
                      THEN tasks[t].promise.value
                      ELSE Undefined

\* C5: in the "Paste as geolocation" handler the parse starts after the
\* clipboard read has resolved; a parse that returned a promise is awaited;
\* insertLocationToEditor is called at most once, only after the parse result
\* is there, and by the time the handler has completed exactly once iff the
\* parse recovered a location, with that location; a parse that yields nothing
\* ends the handler normally.
C5_PasteInsertsIffLocationRecovered ==
    \A t \in Tasks : IsPaste(t) =>
        LET h == tasks[t].hist
            parse == At(h, "call", "parseLocationFromUrl")
            ins == At(h, "insertLocationToEditor", "insertLocationToEditor")
            promised == \E k \in parse : h[k].returned.type = "Promise"
            got == Recovered(t)
        IN  /\ Before(SettledAt(h, "readText", "resolved"), parse)
            /\ Cardinality(parse) <= 1
            /\ Before(parse, ins)
            /\ promised => Before(SettledAt(h, "parseLocationFromUrl", "resolved"), ins)
            /\ (promised /\ tasks[t].pc = "done")
                   => SettledAt(h, "parseLocationFromUrl", "resolved") # {}
            /\ Cardinality(ins) <= 1
            /\ \A k \in ins : got.type = "ParsedLocation" /\ h[k].location = got.location
            /\ tasks[t].pc = "done" => (ins # {} <=> got.type = "ParsedLocation")
            /\ (parse # {} /\ ~promised /\ got.type # "ParsedLocation")
                   => tasks[t].pc = "done"
            /\ (tasks[t].pc = "failed")
                   => (SettledAt(h, "readText", "rejected") # {}
                       \/ SettledAt(h, "parseLocationFromUrl", "rejected") # {})

\* The parse returned a promise, the promise resolved with a location, and the
\* handler inserted it.
C5_Witness ==
    \E t \in Tasks :
        /\ IsPaste(t)
        /\ tasks[t].pc = "done"
        /\ SettledAt(tasks[t].hist, "parseLocationFromUrl", "resolved") # {}
        /\ At(tasks[t].hist, "insertLocationToEditor", "insertLocationToEditor") # {}

\* The collaborators a handler relies on for navigation, file creation or
\* dialog opening.
Collaborators(t) ==
    LET k == tasks[t].onClick.handler
    IN  CASE k = "showOnMap" -> {"openMapWithLocation"}
          [] k \in {"focusNote", "focusLines"} -> {"openMapWithState"}
          [] k = "newNote" -> {"newNote", "goToFile"}
          [] k = "addToNote" -> {"LocationSearchDialog.open"}
          [] k = "import" -> {"ImportDialog.open"}
          [] OTHER -> {}

Succeeded(h, fn) == SettledAt(h, fn, "resolved") \cup At(h, "returned", fn)

Failed(h, fn) == SettledAt(h, fn, "rejected") \cup At(h, "threw", fn)

\* C6: a handler that calls a collaborator for navigation, file creation or
\* dialog opening has not completed normally unless its collaborator calls have
\* completed successfully; once such a call has failed the handler never
\* completes normally, and it has ended in failure as soon as it has run on.
C6_CollaboratorFailurePropagates ==
    \A t \in Tasks :
        LET h == tasks[t].hist
        IN  /\ tasks[t].pc = "done" => \A fn \in Collaborators(t) : Succeeded(h, fn) # {}
            /\ \A fn \in Collaborators(t) :
                   Failed(h, fn) # {}
                       => /\ tasks[t].pc # "done"
                          /\ h[Len(h)].ev # "settled" => tasks[t].pc = "failed"

\* "Show on map" whose openMapWithLocation call rejected: the handler failed.
C6_Witness ==
    \E t \in Tasks :
        /\ tasks[t].onClick.handler = "showOnMap"
        /\ SettledAt(tasks[t].hist, "openMapWithLocation", "rejected") # {}
        /\ tasks[t].pc = "failed"

\* C7: "New note here" handlers running at the same time do not affect each
\* other: each calls newNote once, each resolved call has made its own file,
\* each handler navigates to the file of its own call, and a handler whose
\* newNote call is pending or settled can always take its next step.
C7_ConcurrentNewNotesAreIndependent ==
    /\ \A t \in Tasks : IsNewNote(t) =>
           LET h == tasks[t].hist
           IN  /\ Cardinality(At(h, "call", "newNote")) = 1
               /\ \A k \in At(h, "goToFile", "goToFile") : h[k].file.call = t
               /\ Cardinality({i \in 1..Len(files) : files[i].call = t})
                      = Cardinality(SettledAt(h, "newNote", "resolved"))
               /\ tasks[t].promise.state = "pending" => ENABLED ResolveTask(t)
               /\ (tasks[t].pc = "await" /\ tasks[t].promise.state # "pending")
                      => ENABLED ResumeTask(t)
    /\ \A i, j \in 1..Len(files) : files[i] = files[j] => i = j

\* Two "New note here" clicks, the second while the first was pending; the
\* second's file was created first; both handlers completed.
C7_Witness ==
    /\ Len(tasks) >= 2
    /\ IsNewNote(1) /\ IsNewNote(2)
    /\ tasks[1].pc = "done" /\ tasks[2].pc = "done"
    /\ Len(files) = 2
    /\ files[1].call = 2 /\ files[2].call = 1

====
